---- MODULE Spec2Model ----
(***************************************************************************)
(* Model of src/src/common/network.py: host and network diagnostic        *)
(* helpers (ping, IP discovery, MAC address, TCP port probing/scanning).  *)
(*                                                                         *)
(* Every function of the module is synchronous and single threaded.  The  *)
(* model runs one call at a time.  What the outside world answers (the    *)
(* ping process, the sockets, the HTTP endpoints, the hardware node id)   *)
(* is chosen nondeterministically at the point where the code asks for    *)
(* it.  Python strings are sequences of one-character strings, so that    *)
(* strip(), str(), the hex formatting and the dotted-quad shape are       *)
(* computed, not assumed.                                                  *)
(***************************************************************************)
EXTENDS Integers, Sequences, FiniteSets, TLC

VARIABLES pc, fn, args, idx, acc, ret, events, openPorts

vars == <<pc, fn, args, idx, acc, ret, events, openPorts>>

(***************************************************************************)
(* Bounds of the model.                                                    *)
(***************************************************************************)
\* the ports of the model are FirstPort .. FirstPort + MaxSpan
FirstPort == 79
MaxSpan == 3
\* longest list of hosts / ports handed to ping_list / scan_ports_list
MaxLen == 2

(***************************************************************************)
(* Python values.                                                          *)
(***************************************************************************)
PyBool(b) == [t |-> "bool", v |-> b]
PyNone == [t |-> "NoneType", v |-> "None"]
PyStr(s) == [t |-> "str", v |-> s]
PyPair(b, s) == [t |-> "tuple", v |-> <<b, s>>]
PyDict(d) == [t |-> "dict", v |-> d]
PyList(l) == [t |-> "list", v |-> l]
\* an exception leaving the function
Raised(e) == [t |-> "raise", v |-> e]

(***************************************************************************)
(* Strings.                                                                *)
(***************************************************************************)
Digits == <<"0", "1", "2", "3", "4", "5", "6", "7", "8", "9">>

HexDigits == Digits \o <<"a", "b", "c", "d", "e", "f">>

Whitespace == {" ", "\n", "\t", "\r"}

\* str(n) of a non-negative int
RECURSIVE Str(_)
Str(n) == IF n < 10 THEN <<Digits[n + 1]>>
          ELSE Str(n \div 10) \o <<Digits[(n % 10) + 1]>>

RECURSIVE LStrip(_)
LStrip(s) == IF s # <<>> /\ Head(s) \in Whitespace THEN LStrip(Tail(s)) ELSE s

RECURSIVE RStrip(_)
RStrip(s) == IF s # <<>> /\ s[Len(s)] \in Whitespace
             THEN RStrip(SubSeq(s, 1, Len(s) - 1)) ELSE s

\* str.strip()
Strip(s) == RStrip(LStrip(s))

\* the string literals of the module
S_NotFound == <<"p","i","n","g"," ","u","t","i","l","i","t","y"," ","n","o","t"," ","f","o","u","n","d">>
S_TimedOut == <<"p","i","n","g"," ","c","o","m","m","a","n","d"," ","t","i","m","e","d"," ","o","u","t">>
S_Unreachable == <<"H","o","s","t"," ","u","n","r","e","a","c","h","a","b","l","e">>
S_IsOpen == <<" ","i","s"," ","o","p","e","n">>
S_IsClosed == <<" ","i","s"," ","c","l","o","s","e","d">>
S_ZeroIp == <<"0",".","0",".","0",".","0">>
S_ZeroMac == <<"0","0",":","0","0",":","0","0",":","0","0",":","0","0",":","0","0">>

(***************************************************************************)
(* ping_host, ping.                                                        *)
(***************************************************************************)
\* what the ping process can answer with
PingTexts == { <<>>, <<"o","k","\n">>, <<" ","e","r","r">> }

\* outcomes of lines 25-36: shutil.which() finds nothing; subprocess.run()
\* raises TimeoutExpired; anything else raises; or the process completes
PingOutcomes ==
    { [kind |-> k, rc |-> 0, out |-> <<>>, err |-> <<>>] : k \in {"notfound", "timeout"} }
    \cup { [kind |-> "exception", rc |-> 0, out |-> <<>>, err |-> e] : e \in {<<"e">>} }
    \cup { [kind |-> "completed", rc |-> r, out |-> o, err |-> e] :
             r \in {0, 1, 2}, o \in PingTexts, e \in PingTexts }

\* ping_host without its except clauses
ping_host_except_missing(o) == Raised(o.kind)

\* the except clauses of ping_host, lines 39-42
ping_host_except(o) ==
    IF o.kind = "timeout" THEN PyPair(FALSE, S_TimedOut)
    ELSE PyPair(FALSE, o.err)

ping_host(o) ==
    CASE o.kind = "notfound" -> PyPair(FALSE, S_NotFound)
      [] o.kind = "completed" ->
           PyPair(o.rc = 0,
                  Strip(o.out \o (IF o.err # <<>> THEN <<"\n">> \o o.err ELSE <<>>)))
      [] OTHER -> ping_host_except(o)

\* ping taking bool() of the pair, which is true of every pair
ping_bool_of_pair(o) == PyBool(ping_host(o).t = "tuple")

\* ping: bool(reachable), and False on any exception
ping(o) ==
    LET r == ping_host(o)
    IN  IF r.t = "raise" THEN PyBool(FALSE) ELSE PyBool(r.v[1])

\* ping(host) was called, and whether the world let a ping process of host
\* run to completion with exit code zero
PingEvent(host, o) ==
    [op |-> "ping", host |-> host, ok |-> o.kind = "completed" /\ o.rc = 0]

(***************************************************************************)
(* is_port_open, _tuple_is_port_open.                                      *)
(***************************************************************************)
Ports == FirstPort .. (FirstPort + MaxSpan)

Hosts == {"a", "b"}

ConnectEvent(host, port, open) ==
    [op |-> "connect", host |-> host, port |-> port, ok |-> port \in open]

\* the connect without its except clauses
tcp_connect_except_missing(port) == Raised("OSError")

\* the except clauses of lines 159-162: both give the same pair
tcp_connect_except(port) == PyPair(FALSE, Str(port) \o S_IsClosed)

\* lines 154-162: socket.create_connection succeeds on an open port and
\* raises otherwise
tcp_connect(host, port, open) ==
    [ret |-> IF port \in open THEN PyPair(TRUE, Str(port) \o S_IsOpen)
                              ELSE tcp_connect_except(port),
     ev |-> <<ConnectEvent(host, port, open)>>]

\* the probe without the reachability gate of lines 152-153
_tuple_is_port_open_ungated(host, port, o, open) ==
    LET c == tcp_connect(host, port, open)
    IN  [ret |-> c.ret, ev |-> <<PingEvent(host, o)>> \o c.ev]

\* result and external events of one call
_tuple_is_port_open(host, port, o, open) ==
    IF ping(o) = PyBool(FALSE)
    THEN [ret |-> PyPair(FALSE, S_Unreachable), ev |-> <<PingEvent(host, o)>>]
    ELSE LET c == tcp_connect(host, port, open)
         IN  [ret |-> c.ret, ev |-> <<PingEvent(host, o)>> \o c.ev]

is_port_open(host, port, returntuple, o, open) ==
    LET r == _tuple_is_port_open(host, port, o, open)
    IN  IF returntuple THEN r
        ELSE [ret |-> IF r.ret.t = "tuple" THEN PyBool(r.ret.v[1]) ELSE r.ret,
              ev |-> r.ev]

(***************************************************************************)
(* The calls.                                                              *)
(***************************************************************************)
NoArgs == [host |-> "", port |-> 0, returntuple |-> FALSE, list |-> <<>>,
           first |-> 0, last |-> 0, out |-> <<>>]

\* the module keeps no state between calls: a behaviour is one call
Idle == pc = "idle"

Init ==
    /\ pc = "idle"
    /\ fn = "none"
    /\ args = NoArgs
    /\ idx = 0
    /\ acc = PyNone
    /\ ret = PyNone
    /\ events = <<>>
    /\ openPorts \in SUBSET Ports

Return(f, a, r, ev) ==
    /\ pc' = "done"
    /\ fn' = f
    /\ args' = a
    /\ idx' = 0
    /\ acc' = PyNone
    /\ ret' = r
    /\ events' = ev
    /\ UNCHANGED openPorts

Call_ping_host ==
    /\ Idle
    /\ \E h \in Hosts, o \in PingOutcomes :
         Return("ping_host", [NoArgs EXCEPT !.host = h, !.out = o], ping_host(o),
                <<PingEvent(h, o)>>)

Call_is_port_open ==
    /\ Idle
    /\ \E h \in Hosts, p \in Ports, rt \in BOOLEAN, o \in PingOutcomes :
         LET r == is_port_open(h, p, rt, o, openPorts)
         IN  Return("is_port_open",
                    [NoArgs EXCEPT !.host = h, !.port = p, !.returntuple = rt, !.out = o],
                    r.ret, r.ev)

\* a loop goes on: the next iteration is i, the results so far are a
Continue(i, a, ev) ==
    /\ idx' = i
    /\ acc' = a
    /\ events' = ev
    /\ UNCHANGED <<pc, fn, args, ret, openPorts>>

Enter(f, a, i, r) ==
    /\ pc' = f
    /\ fn' = f
    /\ args' = a
    /\ idx' = i
    /\ acc' = r
    /\ ret' = PyNone
    /\ events' = <<>>
    /\ UNCHANGED openPorts

(***************************************************************************)
(* is_online.                                                              *)
(***************************************************************************)
dns_servers == <<"1.1.1.1", "8.8.8.8", "9.9.9.9">>

\* is_online ending with an explicit return False
is_online_return_false == PyBool(FALSE)

\* the loop ends without a return statement: the call evaluates to None
is_online_exhausted == PyNone

Call_is_online ==
    /\ Idle
    /\ Enter("is_online", NoArgs, 1, PyNone)

\* one iteration of the loop of lines 68-70
is_online_step ==
    /\ pc = "is_online"
    /\ \E o \in PingOutcomes :
         LET ev == Append(events, PingEvent(dns_servers[idx], o))
         IN  IF ping(o).v
             THEN Return(fn, args, PyBool(TRUE), ev)
             ELSE IF idx = Len(dns_servers)
                  THEN Return(fn, args, is_online_exhausted, ev)
                  ELSE Continue(idx + 1, acc, ev)

(***************************************************************************)
(* get_local_ip.                                                           *)
(***************************************************************************)
\* what getsockname()[0] of a connected AF_INET socket can be
LocalAddrs == { <<"1","0",".","0",".","0",".","7">>,
                <<"1","9","2",".","1","6","8",".","1",".","2","5","5">>,
                <<"1","2","7",".","0",".","0",".","1">> }

\* socket() raises; connect() or getsockname() raises (the socket is closed
\* by the finally clause); or the bound address is read
SocketOutcomes ==
    { [kind |-> k, ip |-> <<>>] : k \in {"socket_error", "connect_error"} }
    \cup { [kind |-> "ok", ip |-> a] : a \in LocalAddrs }

\* the except clause of lines 92-93
get_local_ip_except == PyStr(S_ZeroIp)

get_local_ip(o) == IF o.kind = "ok" THEN PyStr(o.ip) ELSE get_local_ip_except

Call_get_local_ip ==
    /\ Idle
    /\ \E o \in SocketOutcomes :
         Return("get_local_ip", [NoArgs EXCEPT !.out = o], get_local_ip(o),
                IF o.kind = "socket_error" THEN <<>>
                ELSE <<[op |-> "udp_connect", host |-> "8.8.8.8", port |-> 80,
                        ok |-> o.kind = "ok"]>>)

(***************************************************************************)
(* get_public_ip.                                                          *)
(***************************************************************************)
endpoints == <<"https://api.ipify.org?format=json",
               "https://ifconfig.me/ip",
               "https://ipinfo.io/ip">>

\* url.endswith("format=json"), on the urls of endpoints
EndsWithFormatJson(url) == url = "https://api.ipify.org?format=json"

B_Ip == <<"1",".","2",".","3",".","4">>
B_IpNewline == <<"9",".","9",".","9",".","9","\n">>
B_Blank == <<" ","\n">>
B_Html == <<"<","h","t","m","l",">","<","/","h","t","m","l",">">>
B_JsonIp == <<"{","\"","i","p","\"",":","\"","5",".","6",".","7",".","8","\"","}">>
B_JsonEmptyIp == <<"{","\"","i","p","\"",":","\"","\"","}","\n">>
B_JsonNoIp == <<"{","}">>
B_JsonList == <<"[","\"","1",".","2",".","3",".","4","\"","]">>

\* the bodies an endpoint may answer with, as decoded text
HttpBodies == { <<>>, B_Blank, B_Ip, B_IpNewline, S_ZeroIp, B_Html,
                B_JsonIp, B_JsonEmptyIp, B_JsonNoIp, B_JsonList }

\* urlopen / read / decode raises, or the body is read
HttpOutcomes ==
    { [kind |-> "error", body |-> <<>>] }
    \cup { [kind |-> "ok", body |-> b] : b \in HttpBodies }

J_Prefix == <<"{","\"","i","p","\"",":","\"">>
J_Suffix == <<"\"","}">>

\* json.loads on the texts of HttpBodies: an object with a string member ip,
\* an object without members, another JSON value, or a decoding error
json_loads(data) ==
    LET n == Len(data)
        inner == SubSeq(data, Len(J_Prefix) + 1, n - Len(J_Suffix))
    IN  IF /\ n >= Len(J_Prefix) + Len(J_Suffix)
           /\ SubSeq(data, 1, Len(J_Prefix)) = J_Prefix
           /\ SubSeq(data, n - Len(J_Suffix) + 1, n) = J_Suffix
           /\ \A k \in 1..Len(inner) : inner[k] \notin {"\"", "\\"}
        THEN [kind |-> "object", ip |-> PyStr(inner)]
        ELSE IF data = B_JsonNoIp THEN [kind |-> "object", ip |-> PyNone]
        ELSE IF data = B_JsonList THEN [kind |-> "list", ip |-> PyNone]
        ELSE [kind |-> "error", ip |-> PyNone]

\* a body that is no JSON object counted as no answer
json_except_skip(data) == PyNone

\* the except clause of lines 122-123: json.loads raised, or obj has no get()
json_except(data) == PyStr(data)

\* lines 117-125: the value taken from a response that was read
ip_of_body(url, body) ==
    LET data == Strip(body)
    IN  IF EndsWithFormatJson(url)
        THEN LET obj == json_loads(data)
             IN  IF obj.kind = "object" THEN obj.ip ELSE json_except(data)
        ELSE PyStr(data)

\* Python truth of the value: None and "" are false
Truthy(x) == x.t = "str" /\ x.v # <<>>

HttpEvent(url, o) == [op |-> "http", url |-> url, out |-> o]

Call_get_public_ip ==
    /\ Idle
    /\ Enter("get_public_ip", NoArgs, 1, PyNone)

\* one iteration of the loop of lines 114-129, and line 130 after the last
get_public_ip_step ==
    /\ pc = "get_public_ip"
    /\ \E o \in HttpOutcomes :
         LET url == endpoints[idx]
             ev == Append(events, HttpEvent(url, o))
             ip == IF o.kind = "ok" THEN ip_of_body(url, o.body) ELSE PyNone
         IN  IF Truthy(ip)
             THEN Return(fn, args, ip, ev)
             ELSE IF idx = Len(endpoints)
                  THEN Return(fn, args, PyStr(S_ZeroIp), ev)
                  ELSE Continue(idx + 1, acc, ev)

(***************************************************************************)
(* get_mac_address.                                                        *)
(***************************************************************************)
\* uuid.getnode() is a 48-bit integer, held as two 24-bit limbs hi * 2^24 + lo
LimbBits == 24

LimbSamples == {0, 1, 171, 4096, 65280, 1193046, 16777215}

Nodes == [hi : LimbSamples, lo : LimbSamples]

RECURSIVE Pow2(_)
Pow2(k) == IF k = 0 THEN 1 ELSE 2 * Pow2(k - 1)

\* (mac >> ele) & 0xff for ele a multiple of 8
ShiftAndMask(mac, ele) ==
    IF ele >= LimbBits THEN (mac.hi \div Pow2(ele - LimbBits)) % 256
                       ELSE (mac.lo \div Pow2(ele)) % 256

\* format spec 02x: lowercase hex, zero-padded to width 2
RECURSIVE Hex(_)
Hex(n) == IF n < 16 THEN <<HexDigits[n + 1]>>
          ELSE Hex(n \div 16) \o <<HexDigits[(n % 16) + 1]>>

\* format spec x: no zero padding
Format_x(n) == Hex(n)

Format02x(n) == LET h == Hex(n) IN IF Len(h) < 2 THEN <<"0">> \o h ELSE h

\* range(40, -1, -8)
ShiftRange == <<40, 32, 24, 16, 8, 0>>

RECURSIVE Join(_, _)
Join(sep, parts) ==
    IF parts = <<>> THEN <<>>
    ELSE IF Len(parts) = 1 THEN parts[1]
    ELSE parts[1] \o sep \o Join(sep, Tail(parts))

mac_str(mac) ==
    Join(<<":">>, [k \in 1..Len(ShiftRange) |-> Format02x(ShiftAndMask(mac, ShiftRange[k]))])

NodeOutcomes == { [kind |-> "error", node |-> [hi |-> 0, lo |-> 0]] }
                \cup { [kind |-> "ok", node |-> m] : m \in Nodes }

\* the except clause of lines 147-148
get_mac_address_except == PyStr(S_ZeroMac)

get_mac_address(o) ==
    IF o.kind = "ok" THEN PyStr(mac_str(o.node)) ELSE get_mac_address_except

Call_get_mac_address ==
    /\ Idle
    /\ \E o \in NodeOutcomes :
         Return("get_mac_address", [NoArgs EXCEPT !.out = o], get_mac_address(o), <<>>)

(***************************************************************************)
(* ping_list, scan_ports_list, free_port_scanner.                          *)
(***************************************************************************)
SeqsUpTo(S, n) == UNION { [1..k -> S] : k \in 0..n }

EmptyDict == [k \in {} |-> FALSE]

\* results = {key: value}
DictReplace(d, key, value) == [k \in {key} |-> value]

\* results[key] = value
DictSet(d, key, value) ==
    [k \in DOMAIN d \cup {key} |-> IF k = key THEN value ELSE d[k]]

Call_ping_list ==
    /\ Idle
    /\ \E hosts \in SeqsUpTo(Hosts, MaxLen) :
         IF hosts = <<>>
         THEN Return("ping_list", [NoArgs EXCEPT !.list = hosts], PyDict(EmptyDict), <<>>)
         ELSE Enter("ping_list", [NoArgs EXCEPT !.list = hosts], 1, PyDict(EmptyDict))

\* one iteration of the loop of lines 193-194, and line 195 after the last
ping_list_step ==
    /\ pc = "ping_list"
    /\ \E o \in PingOutcomes :
         LET host == args.list[idx]
             results == PyDict(DictSet(acc.v, host, ping(o).v))
             ev == Append(events, PingEvent(host, o))
         IN  IF idx = Len(args.list)
             THEN Return(fn, args, results, ev)
             ELSE Continue(idx + 1, results, ev)

\* what a call of is_port_open(host, port) gave
ProbeEvent(host, port, r) ==
    [op |-> "is_port_open", host |-> host, port |-> port, result |-> r]

Call_scan_ports_list ==
    /\ Idle
    /\ \E h \in Hosts, ports \in SeqsUpTo(Ports, MaxLen) :
         LET a == [NoArgs EXCEPT !.host = h, !.list = ports]
         IN  IF ports = <<>>
             THEN Return("scan_ports_list", a, PyDict(EmptyDict), <<>>)
             ELSE Enter("scan_ports_list", a, 1, PyDict(EmptyDict))

\* one iteration of the loop of lines 234-235, and line 236 after the last;
\* the function has no try: what is_port_open raises leaves it
scan_ports_list_step ==
    /\ pc = "scan_ports_list"
    /\ \E o \in PingOutcomes :
         LET port == args.list[idx]
             r == is_port_open(args.host, port, FALSE, o, openPorts)
             results == PyDict(DictSet(acc.v, port, r.ret.v))
             ev == events \o r.ev \o <<ProbeEvent(args.host, port, r.ret)>>
         IN  IF r.ret.t = "raise"
             THEN Return(fn, args, r.ret, ev)
             ELSE IF idx = Len(args.list)
             THEN Return(fn, args, results, ev)
             ELSE Continue(idx + 1, results, ev)

\* range(start_port, end_port)
PortRangeExclusive(start_port, end_port) ==
    [k \in 1..(end_port - start_port) |-> start_port + k - 1]

\* range(start_port, end_port + 1)
PortRange(start_port, end_port) ==
    [k \in 1..(end_port + 1 - start_port) |-> start_port + k - 1]

Call_free_port_scanner ==
    /\ Idle
    /\ \E h \in Hosts, start_port \in Ports, end_port \in (FirstPort - 1)..(FirstPort + MaxSpan) :
         LET a == [NoArgs EXCEPT !.host = h, !.first = start_port, !.last = end_port,
                                 !.list = PortRange(start_port, end_port)]
         IN  IF a.list = <<>>
             THEN Return("free_port_scanner", a, PyList(<<>>), <<>>)
             ELSE Enter("free_port_scanner", a, 1, PyList(<<>>))

\* one iteration of the loop of lines 213-218, and line 219 after the last;
\* the progress line of line 218 goes to standard output only
free_port_scanner_step ==
    /\ pc = "free_port_scanner"
    /\ \E o \in PingOutcomes :
         LET port == args.list[idx]
             r == is_port_open(args.host, port, FALSE, o, openPorts)
             resalt == ~ r.ret.v
             open_ports == PyList(IF resalt THEN Append(acc.v, port) ELSE acc.v)
             ev == events \o r.ev \o <<ProbeEvent(args.host, port, r.ret)>>
         IN  IF r.ret.t = "raise"
             THEN Return(fn, args, r.ret, ev)
             ELSE IF idx = Len(args.list)
             THEN Return(fn, args, open_ports, ev)
             ELSE Continue(idx + 1, open_ports, ev)

Next ==
    \/ Call_ping_host
    \/ Call_is_port_open
    \/ Call_is_online
    \/ is_online_step
    \/ Call_get_local_ip
    \/ Call_get_public_ip
    \/ get_public_ip_step
    \/ Call_get_mac_address
    \/ Call_ping_list
    \/ ping_list_step
    \/ Call_scan_ports_list
    \/ scan_ports_list_step
    \/ Call_free_port_scanner
    \/ free_port_scanner_step

Spec == Init /\ [][Next]_vars

(***************************************************************************)
(* Helpers of the properties.                                              *)
(***************************************************************************)
Done(f) == pc = "done" /\ fn = f

\* the calls of is_port_open a scan made, in order
Probes == SelectSeq(events, LAMBDA e : e.op = "is_port_open")

Range(q) == { q[k] : k \in 1..Len(q) }

\* the last position of x in q
LastIndex(q, x) == CHOOSE k \in 1..Len(q) : q[k] = x /\ \A j \in (k + 1)..Len(q) : q[j] # x

\* what the claims call unreachable: the ping of the call did not succeed
PingFailed(e) == e.op = "ping" /\ ~ e.ok

Thm_C2 ==
    Done("ping_host") =>
      /\ ret.t = "tuple"
      /\ ret.v[1] \in BOOLEAN
      /\ ret.v[1] <=> (args.out.kind = "completed" /\ args.out.rc = 0)
      /\ args.out.kind = "notfound" => ret = PyPair(FALSE, S_NotFound)
      /\ args.out.kind = "timeout" => ret = PyPair(FALSE, S_TimedOut)
      /\ args.out.kind = "exception" => ret = PyPair(FALSE, args.out.err)

\* the process timed out
Wit_C2 ==
    /\ Done("ping_host")
    /\ args.out.kind = "timeout"
    /\ ret = PyPair(FALSE, S_TimedOut)

Thm_C5 ==
    Done("scan_ports_list") =>
      /\ ret.t = "dict"
      /\ DOMAIN ret.v = Range(args.list)
      /\ Len(Probes) = Len(args.list)
      /\ \A k \in 1..Len(Probes) : Probes[k].port = args.list[k]
                                   /\ Probes[k].result.t = "bool"
      /\ \A p \in DOMAIN ret.v :
           /\ ret.v[p] \in BOOLEAN
           /\ ret.v[p] = Probes[LastIndex(args.list, p)].result.v
      /\ ( /\ args.list = <<80, 81>>
           /\ 80 \in openPorts /\ 81 \notin openPorts
           /\ \A k \in 1..Len(events) : ~ PingFailed(events[k]) )
         => ret.v = [p \in {80, 81} |-> p = 80]

\* the example of the claim
Wit_C5 ==
    /\ Done("scan_ports_list")
    /\ args.list = <<80, 81>>
    /\ 80 \in openPorts /\ 81 \notin openPorts
    /\ \A k \in 1..Len(events) : ~ PingFailed(events[k])
    /\ ret = PyDict([p \in {80, 81} |-> p = 80])

(***************************************************************************)
(* C10: ping_list pings the hosts in list order and returns a mapping      *)
(* whose keys are exactly the hosts given (a repeated host is one key),    *)
(* each value the boolean ping result for that host.                       *)
(***************************************************************************)
Thm_C10 ==
    Done("ping_list") =>
      /\ ret.t = "dict"
      /\ DOMAIN ret.v = Range(args.list)
      /\ Len(events) = Len(args.list)
      /\ \A k \in 1..Len(events) : events[k].op = "ping" /\ events[k].host = args.list[k]
      /\ \A h \in DOMAIN ret.v :
           /\ ret.v[h] \in BOOLEAN
           /\ ret.v[h] = events[LastIndex(args.list, h)].ok

\* the same host twice, answering differently: one key, the later answer
Wit_C10 ==
    /\ Done("ping_list")
    /\ Len(args.list) = 2
    /\ args.list[1] = args.list[2]
    /\ events[1].ok /\ ~ events[2].ok
    /\ ret = PyDict([h \in {args.list[1]} |-> FALSE])

(***************************************************************************)
(* The shape of an address.                                                *)
(***************************************************************************)
\* s.split(sep) for a one-character sep
RECURSIVE Split(_, _)
Split(s, sep) ==
    IF \A k \in 1..Len(s) : s[k] # sep THEN <<s>>
    ELSE LET k == CHOOSE j \in 1..Len(s) : s[j] = sep /\ \A m \in 1..(j - 1) : s[m] # sep
         IN  <<SubSeq(s, 1, k - 1)>> \o Split(SubSeq(s, k + 1, Len(s)), sep)

DigitValue(c) == CHOOSE d \in 0..9 : Digits[d + 1] = c

RECURSIVE DecValue(_)
DecValue(s) == IF s = <<>> THEN 0
               ELSE 10 * DecValue(SubSeq(s, 1, Len(s) - 1)) + DigitValue(s[Len(s)])

\* one to three decimal digits, at most 255
IsOctetText(s) ==
    /\ Len(s) \in 1..3
    /\ \A k \in 1..Len(s) : s[k] \in Range(Digits)
    /\ DecValue(s) <= 255

\* a dotted quad: four such numbers joined by dots
IsDottedQuad(s) ==
    LET parts == Split(s, ".")
    IN  Len(parts) = 4 /\ \A k \in 1..4 : IsOctetText(parts[k])

(***************************************************************************)
(* C3: get_local_ip and get_public_ip never raise and, whatever the        *)
(* sockets and the endpoints answer, return a dotted-quad IPv4 string (of  *)
(* which the sentinel "0.0.0.0" is one).                                   *)
(***************************************************************************)
Claim_C3 ==
    (Done("get_local_ip") \/ Done("get_public_ip")) =>
      ret.t = "str" /\ IsDottedQuad(ret.v)

(***************************************************************************)
(* C7: for every 48-bit node id get_mac_address gives six groups of two    *)
(* lowercase hex digits joined by colons, the groups being the octets of   *)
(* the id from the most to the least significant; on failure it gives      *)
(* "00:00:00:00:00:00".                                                    *)
(***************************************************************************)
HexValue(c) == CHOOSE d \in 0..15 : HexDigits[d + 1] = c

RECURSIVE Pow256(_)
Pow256(k) == IF k = 0 THEN 1 ELSE 256 * Pow256(k - 1)

\* octet j of 6 of the id hi * 2^24 + lo, the most significant being octet 1
OctetOf(node, j) ==
    IF j <= 3 THEN (node.hi \div Pow256(3 - j)) % 256
              ELSE (node.lo \div Pow256(6 - j)) % 256

Thm_C7 ==
    Done("get_mac_address") =>
      /\ ret.t = "str"
      /\ args.out.kind = "error" => ret.v = S_ZeroMac
      /\ args.out.kind = "ok" =>
           /\ Len(ret.v) = 17
           /\ \A k \in 1..17 :
                IF k % 3 = 0 THEN ret.v[k] = ":" ELSE ret.v[k] \in Range(HexDigits)
           /\ \A j \in 1..6 :
                16 * HexValue(ret.v[3 * j - 2]) + HexValue(ret.v[3 * j - 1])
                  = OctetOf(args.out.node, j)

\* an id with octets below 16 (padded) and letters: 00:00:ab:12:34:56
Wit_C7 ==
    /\ Done("get_mac_address")
    /\ args.out.kind = "ok"
    /\ args.out.node = [hi |-> 171, lo |-> 1193046]
    /\ ret.v = <<"0","0",":","0","0",":","a","b",":","1","2",":","3","4",":","5","6">>

(***************************************************************************)
(* C8: is_online probes 1.1.1.1, 8.8.8.8, 9.9.9.9 in that order, returns   *)
(* True at the first success without probing a later server, and when all  *)
(* three fail falls off its end: the result is None, not False.            *)
(***************************************************************************)
Thm_C8 ==
    fn = "is_online" =>
      /\ Len(events) <= 3
      /\ \A k \in 1..Len(events) :
           /\ events[k].op = "ping"
           /\ events[k].host = <<"1.1.1.1", "8.8.8.8", "9.9.9.9">>[k]
      /\ \A k \in 1..(Len(events) - 1) : ~ events[k].ok
      /\ pc = "is_online" => \A k \in 1..Len(events) : ~ events[k].ok
      /\ pc = "done" =>
           /\ Len(events) >= 1
           /\ IF events[Len(events)].ok
              THEN ret = PyBool(TRUE)
              ELSE Len(events) = 3 /\ ret = PyNone /\ ret # PyBool(FALSE)

\* all three probes failed
Wit_C8 ==
    /\ Done("is_online")
    /\ Len(events) = 3
    /\ \A k \in 1..3 : ~ events[k].ok
    /\ ret = PyNone

(***************************************************************************)
(* What get_public_ip did, read from its requests.                         *)
(***************************************************************************)
IsJsonEndpoint(e) == e.url = "https://api.ipify.org?format=json"

HttpFailed(e) == e.op = "http" /\ e.out.kind = "error"

\* the JSON endpoint answered with a text that is no JSON object
ParseFailed(e) ==
    /\ e.op = "http" /\ e.out.kind = "ok"
    /\ IsJsonEndpoint(e)
    /\ json_loads(Strip(e.out.body)).kind # "object"

\* the value of an answer as C9 states it: the ip member of the parsed body
\* for the JSON endpoint, the stripped text for the others
ClaimedValue(e) ==
    IF e.out.kind # "ok" THEN PyNone
    ELSE IF IsJsonEndpoint(e)
         THEN IF ParseFailed(e) THEN PyNone ELSE json_loads(Strip(e.out.body)).ip
         ELSE PyStr(Strip(e.out.body))

\* the same, with the stripped text standing in for a body that is no JSON object
AmendedValue(e) ==
    IF ParseFailed(e) THEN PyStr(Strip(e.out.body)) ELSE ClaimedValue(e)

NonEmpty(x) == x.t = "str" /\ Len(x.v) > 0

\* the requests are to the first endpoints of the list, in its order
InEndpointOrder ==
    /\ Len(events) <= 3
    /\ \A k \in 1..Len(events) :
         /\ events[k].op = "http"
         /\ events[k].url = <<"https://api.ipify.org?format=json",
                              "https://ifconfig.me/ip",
                              "https://ipinfo.io/ip">>[k]

IsFalsePair(r) == r.t = "tuple" /\ r.v[1] = FALSE

SentinelsOfFailures ==
    /\ ret.t # "raise"
    /\ (Done("ping_host") /\ args.out.kind # "completed") => IsFalsePair(ret)
    /\ (Done("is_port_open") /\ \E k \in 1..Len(events) :
                                  events[k].op = "connect" /\ ~ events[k].ok)
         => IF args.returntuple THEN IsFalsePair(ret) ELSE ret = PyBool(FALSE)
    /\ (Done("get_local_ip") /\ args.out.kind # "ok") => ret = PyStr(S_ZeroIp)
    /\ (Done("get_mac_address") /\ args.out.kind # "ok") => ret = PyStr(S_ZeroMac)
    /\ (Done("get_public_ip") /\ HttpFailed(events[Len(events)]))
         => ret = PyStr(S_ZeroIp)

====
